---- MODULE Spec2Model ----
(***************************************************************************)
(* Crossword CSP solver (crossword/generate.py, class CrosswordCreator)    *)
(* and the tic-tac-toe move function (tictactoe/tictactoe.py, result).     *)
(*                                                                         *)
(* Words are sequences of letters; Python's 0-based index w[k] is          *)
(* Char(w, k).  Python sets and dicts iterate in an order the program does *)
(* not control, so every loop over a set is a nondeterministic order.      *)
(***************************************************************************)
EXTENDS Integers, Sequences, FiniteSets, TLC

VARIABLES
    variables,  \* crossword.variables: the set of slots of the puzzle
    words,      \* crossword.words: the vocabulary
    domains,    \* self.domains: slot -> set of words
    pc,         \* "idle", "ac3" (inside the while loop), "backtrack", "answered"
    caller,     \* "api" (method called directly) or "solve" (called by solve())
    arcs,       \* ac3's worklist
    stack,      \* backtrack's activation records, innermost last
    rv,         \* value a backtrack activation has just returned to its caller
    rvFor,      \* the assignment that activation was called on
    op,         \* the last method called from outside
    arg,        \* its assignment argument (backtrack, consistent)
    ret,        \* its outcome
    ac3ret,     \* outcome of the last ac3() that ran to its end
    revised,    \* what the last iteration of ac3's loop did
    domains0,   \* self.domains when the last method was called
    priorAc3,   \* the last method is ac3, called right after an ac3 that returned True
    out,        \* what main() reports after solve()
    arc,        \* the (x, y) handed to the last direct call of revise, or <<>>
    ordered,    \* (var, list) of the last direct order_domain_values call, or <<>>
    heap,       \* tic-tac-toe: contents of the row lists, by object identity
    board,      \* tic-tac-toe: the caller's board, a list of three row objects
    nb,         \* tic-tac-toe: the board result() built, or <<>>
    action,     \* tic-tac-toe: the (i, j) given to the last result() call
    raised,     \* tic-tac-toe: the last result() call raised
    board0      \* tic-tac-toe: contents of the caller's board before that call

cwvars == <<variables, words, domains, pc, caller, arcs, stack, rv, rvFor, op,
            arg, ret, ac3ret, revised, domains0, priorAc3, out, arc, ordered>>
tttvars == <<heap, board, nb, action, raised, board0>>
vars == <<variables, words, domains, pc, caller, arcs, stack, rv, rvFor, op,
          arg, ret, ac3ret, revised, domains0, priorAc3, out, arc, ordered,
          heap, board, nb, action, raised, board0>>

----------------------------------------------------------------------------
(* Bounds *)

\* largest vocabulary handed to the solver
MaxVocab == 3

\* most moves played on the tic-tac-toe board
MaxMoves == 4

----------------------------------------------------------------------------
(* Puzzle structure: slots, overlaps, neighbors *)

ACROSS == "across"

DOWN == "down"

\* The candidate words vocabularies are drawn from: lengths 1, 2 and 3.
Universe ==
    { <<"a">>, <<"a", "a">>, <<"a", "b">>, <<"b", "a">>, <<"b", "b">>,
      <<"a", "b", "a">> }

\* Grids (TRUE = fillable): fully blocked; one across slot; an across slot of
\* length 3 crossed by a down slot of length 2; a chain of three slots of
\* length 2; a chain of three slots of lengths 3, 2 and 2.
Grids ==
    { << <<FALSE>> >>,
      << <<TRUE, TRUE>> >>,
      << <<TRUE, TRUE, TRUE>>, <<FALSE, TRUE, FALSE>> >>,
      << <<TRUE, TRUE, FALSE>>, <<FALSE, TRUE, TRUE>> >>,
      << <<TRUE, TRUE, TRUE, FALSE>>, <<FALSE, FALSE, TRUE, TRUE>> >> }

Height(g) == Len(g)

Width(g) == Len(g[1])

Fillable(g, i, j) ==
    /\ i \in 0 .. Height(g) - 1
    /\ j \in 0 .. Width(g) - 1
    /\ g[i + 1][j + 1]

\* length of the maximal run of fillable cells from (i, j) in direction d
RunLength(g, i, j, d) ==
    CHOOSE n \in 1 .. (Height(g) + Width(g)) :
        /\ \A k \in 0 .. n - 1 :
              Fillable(g, i + (IF d = DOWN THEN k ELSE 0),
                          j + (IF d = ACROSS THEN k ELSE 0))
        /\ ~Fillable(g, i + (IF d = DOWN THEN n ELSE 0),
                        j + (IF d = ACROSS THEN n ELSE 0))

\* a slot: Variable(i, j, direction, length)
Variable(i, j, d, n) == [i |-> i, j |-> j, direction |-> d, length |-> n]

\* the slots of a grid: maximal runs of length >= 2, across and down
Slots(g) ==
    { Variable(i, j, ACROSS, RunLength(g, i, j, ACROSS)) :
        <<i, j>> \in { c \in (0 .. Height(g) - 1) \X (0 .. Width(g) - 1) :
                         /\ Fillable(g, c[1], c[2])
                         /\ ~Fillable(g, c[1], c[2] - 1)
                         /\ RunLength(g, c[1], c[2], ACROSS) >= 2 } }
    \cup
    { Variable(i, j, DOWN, RunLength(g, i, j, DOWN)) :
        <<i, j>> \in { c \in (0 .. Height(g) - 1) \X (0 .. Width(g) - 1) :
                         /\ Fillable(g, c[1], c[2])
                         /\ ~Fillable(g, c[1] - 1, c[2])
                         /\ RunLength(g, c[1], c[2], DOWN) >= 2 } }

\* the k-th cell of a slot
CellAt(v, k) ==
    << v.i + (IF v.direction = DOWN THEN k ELSE 0),
       v.j + (IF v.direction = ACROSS THEN k ELSE 0) >>

\* "overlap is None"
None == <<>>

\* crossword.overlaps[x, y]: None, or the offsets of the shared cell in x and y
overlaps(x, y) ==
    IF x # y /\ \E kx \in 0 .. x.length - 1, ky \in 0 .. y.length - 1 :
                    CellAt(x, kx) = CellAt(y, ky)
    THEN CHOOSE o \in (0 .. x.length - 1) \X (0 .. y.length - 1) :
             CellAt(x, o[1]) = CellAt(y, o[2])
    ELSE None

\* crossword.neighbors(x)
neighbors(x) == { y \in variables \ {x} : overlaps(x, y) # None }

\* Python's w[k], for 0 <= k < len(w)
Char(w, k) == w[k + 1]

\* w[k] raises IndexError
OutOfRange(w, k) == k >= Len(w)

----------------------------------------------------------------------------
(* Iteration orders *)

\* the orders in which a loop may visit the elements of a set
Orderings(S) ==
    { s \in [1 .. Cardinality(S) -> S] :
        \A i, j \in 1 .. Cardinality(S) : i # j => s[i] # s[j] }

----------------------------------------------------------------------------
(* CrosswordCreator: consistency engine *)

\* __init__: every slot starts with a copy of the whole vocabulary
InitialDomains(vs, ws) == [v \in vs |-> ws]

\* enforce_node_consistency keeping every word that is not too long
enforce_node_consistencyAtMost(dom) ==
    [v \in DOMAIN dom |-> { w \in dom[v] : Len(w) <= v.length }]

\* enforce_node_consistency: keep the words whose length is the slot's length
enforce_node_consistency(dom) ==
    [v \in DOMAIN dom |-> { w \in dom[v] : Len(w) = v.length }]

\* revise: the comparison x_word[ox] != y_word[oy] indexes past the end of a
\* word for some pair the two loops reach (no pair is skipped: there is no break)
reviseRaises(dom, x, y) ==
    /\ overlaps(x, y) # None
    /\ dom[x] # {}
    /\ dom[y] # {}
    /\ \/ \E w \in dom[x] : OutOfRange(w, overlaps(x, y)[1])
       \/ \E w \in dom[y] : OutOfRange(w, overlaps(x, y)[2])

\* revise refusing the same word as a partner (y_word != x_word)
to_removeSameWord(dom, x, y) ==
    IF overlaps(x, y) = None
    THEN {}
    ELSE { x_word \in dom[x] :
             ~\E y_word \in dom[y] :
                 /\ y_word # x_word
                 /\ Char(x_word, overlaps(x, y)[1])
                       = Char(y_word, overlaps(x, y)[2]) }

\* revise stopping at the first word it finds without a partner
to_removeOne(dom, x, y) ==
    IF overlaps(x, y) = None
    THEN {}
    ELSE LET all == { x_word \in dom[x] :
                        ~\E y_word \in dom[y] :
                            Char(x_word, overlaps(x, y)[1])
                                = Char(y_word, overlaps(x, y)[2]) }
         IN  IF all = {} THEN {} ELSE { CHOOSE w \in all : TRUE }

\* revise: the words of domains[x] with no possible partner in domains[y]
to_remove(dom, x, y) ==
    IF overlaps(x, y) = None
    THEN {}
    ELSE { x_word \in dom[x] :
             ~\E y_word \in dom[y] :
                 Char(x_word, overlaps(x, y)[1]) = Char(y_word, overlaps(x, y)[2]) }

\* revise keeping the words it should remove (`if w in to_remove`)
reviseDomainsKept(dom, x, y) ==
    [dom EXCEPT ![x] = { w \in dom[x] : w \in to_remove(dom, x, y) }]

\* revise: self.domains after the call
reviseDomains(dom, x, y) ==
    [dom EXCEPT ![x] = { w \in dom[x] : w \notin to_remove(dom, x, y) }]

\* revise: the value returned
revise(dom, x, y) == Cardinality(to_remove(dom, x, y)) # 0

\* ac3, arcs is None: all arcs, slot by slot, each slot's neighbors in turn
AllArcs == { a \in variables \X variables : a[2] \in neighbors(a[1]) }

InitialArcs ==
    { q \in Orderings(AllArcs) :
        \A i, j, k \in 1 .. Len(q) :
            (i < k /\ k < j /\ q[i][1] = q[j][1]) => q[k][1] = q[i][1] }

\* arcs[0] in place of arcs.pop(0): the list keeps its first arc
PopPeek(q) == q

\* ac3: arcs.pop(0) leaves the rest of the list

Pop(q) == Tail(q)

\* ac3 without the re-enqueueing after a revision
EnqueueNothing(q, x, order) == q

\* ac3: after a revision, append (z, x) for z in neighbors(x), visited in `order`

Enqueue(q, x, order) == q \o [k \in 1 .. Len(order) |-> <<order[k], x>>]

\* the final scan of ac3 with an off-by-one size test
NoEmptyDomainStrict(dom) == \A x \in DOMAIN dom : Cardinality(dom[x]) > 1

\* ac3: the final scan, False if some domain is empty
NoEmptyDomain(dom) == \A x \in DOMAIN dom : Cardinality(dom[x]) # 0

----------------------------------------------------------------------------
(* CrosswordCreator: search engine *)

\* dict()
EmptyAssignment == [v \in {} |-> <<>>]

\* curr = assignment.copy(); curr[x] = w
Extend(a, x, w) == [v \in DOMAIN a \cup {x} |-> IF v = x THEN w ELSE a[v]]

\* backtrack trying the candidate on the caller's own dictionary
\* (`curr = assignment`)
CallerAssignmentAliased(a, curr) == curr

\* what the caller's dictionary a holds once backtrack has built curr from it:
\* `curr = assignment.copy(); curr[x] = w` writes to the copy only
CallerAssignment(a, curr) == a

\* assignment_complete testing only that the assigned slots are slots
assignment_completeSubset(a) == DOMAIN a \subseteq DOMAIN domains

\* assignment_complete
assignment_complete(a) == DOMAIN domains = DOMAIN a

\* consistent without the word_set test
consistentNoDistinct(a) ==
    /\ \A ass \in DOMAIN a : Len(a[ass]) = ass.length
    /\ \A x \in DOMAIN a : \A y \in neighbors(x) :
          \/ y \notin DOMAIN a
          \/ overlaps(x, y) = None
          \/ Char(a[x], overlaps(x, y)[1]) = Char(a[y], overlaps(x, y)[2])

\* consistent
consistent(a) ==
    /\ \A ass \in DOMAIN a : Len(a[ass]) = ass.length
    /\ Cardinality({ a[ass] : ass \in DOMAIN a }) = Cardinality(DOMAIN a)
    /\ \A x \in DOMAIN a : \A y \in neighbors(x) :
          \/ y \notin DOMAIN a
          \/ overlaps(x, y) = None
          \/ Char(a[x], overlaps(x, y)[1]) = Char(a[y], overlaps(x, y)[2])

\* select_unassigned_variable: possible_vars
possible_vars(a) == { var \in DOMAIN domains : var \notin DOMAIN a }

\* select_unassigned_variable returning any unassigned slot (no key to min)
select_unassigned_variableAny(a) == possible_vars(a)

\* select_unassigned_variable: the slots min() may return (ties in any order)
select_unassigned_variable(a) ==
    { x \in possible_vars(a) :
        \A u \in possible_vars(a) :
            Cardinality(domains[x]) <= Cardinality(domains[u]) }

\* order_domain_values counting the assigned neighbors as well
CountedNeighborsAll(var, a) ==
    { n \in neighbors(var) : overlaps(var, n) # None }

\* order_domain_values: the neighbors that are counted
CountedNeighbors(var, a) ==
    { n \in neighbors(var) : n \notin DOMAIN a /\ overlaps(var, n) # None }

\* order_domain_values: word[ox] != possible_other_word[oy] indexes past the end
orderRaises(var, a) ==
    \E word \in domains[var], n \in CountedNeighbors(var, a) :
        \E other \in domains[n] :
            \/ OutOfRange(word, overlaps(var, n)[1])
            \/ OutOfRange(other, overlaps(var, n)[2])

\* get_n_of_values_ruled_out: count += 1 per conflicting word, neighbor by neighbor
RECURSIVE RuledOutOver(_, _, _)
RuledOutOver(ns, var, word) ==
    IF ns = {}
    THEN 0
    ELSE LET n == CHOOSE m \in ns : TRUE
         IN  Cardinality({ other \in domains[n] :
                             Char(word, overlaps(var, n)[1])
                                 # Char(other, overlaps(var, n)[2]) })
             + RuledOutOver(ns \ {n}, var, word)

get_n_of_values_ruled_out(var, a, word) ==
    RuledOutOver(CountedNeighbors(var, a), var, word)

\* order_domain_values: the lists sorted() may return (equal keys in any order)
order_domain_values(var, a) ==
    LET key == [w \in domains[var] |-> get_n_of_values_ruled_out(var, a, w)]
    IN  { s \in Orderings(domains[var]) :
            \A i, j \in 1 .. Len(s) : i < j => key[s[i]] <= key[s[j]] }

\* backtrack's for loop over order_domain_values(var, a): the words that may
\* come next when the words `rest` of the sorted list are still to come
NextValues(var, a, rest) ==
    { w \in rest :
        \A u \in rest : get_n_of_values_ruled_out(var, a, w)
                            <= get_n_of_values_ruled_out(var, a, u) }

----------------------------------------------------------------------------
(* Values returned to the caller *)

Pending == [kind |-> "pending", val |-> EmptyAssignment]

NoneValue == [kind |-> "None", val |-> EmptyAssignment]

Dict(a) == [kind |-> "dict", val |-> a]

Bool(b) == [kind |-> IF b THEN "True" ELSE "False", val |-> EmptyAssignment]

IndexError == [kind |-> "IndexError", val |-> EmptyAssignment]

\* a list was returned (order_domain_values; the list itself is in `ordered`)
Listed == [kind |-> "list", val |-> EmptyAssignment]

\* `if res is True` in place of `if res`
TruthyIsTrue(r) == r.kind = "True"

\* Python truth value of a backtrack result: None and the empty dict are false
Truthy(r) == r.kind = "dict" /\ DOMAIN r.val # {}

\* main: `assignment is None`, tested by truth value instead
IsNoneByTruth(r) == ~Truthy(r)

\* main: `assignment is None`
IsNone(r) == r.kind = "None"

\* main: what is reported for solve()'s result
Report(r) == IF IsNone(r) THEN "No solution." ELSE "printed"

----------------------------------------------------------------------------
(* Tic-tac-toe: boards are lists of row objects held in a heap *)

X == "X"

O == "O"

EMPTY == "EMPTY"

RowIds == 1 .. 6

NoBoard == <<>>

NoAction == <<>>

\* the 3x3 contents of the board whose rows are the objects b
Contents(h, b) == [r \in 1 .. 3 |-> h[b[r]]]

\* number of cells of a 3x3 contents holding mark m
Count(c, m) == Cardinality({ p \in (1 .. 3) \X (1 .. 3) : c[p[1]][p[2]] = m })

\* initial_state
initial_state == [r \in 1 .. 3 |-> <<EMPTY, EMPTY, EMPTY>>]

\* player
player(c) == IF Count(c, X) = Count(c, O) THEN X ELSE O

\* result: the bounds test on the action
InBounds(i, j) == 0 <= i /\ i < 3 /\ 0 <= j /\ j < 3

\* a shallow copy: a new outer list over the same row objects
ShallowRows(b) == b

\* copy.deepcopy(board): new row objects, the ones the caller's board does not use
CopyRows(b) == IF b[1] = 1 THEN <<4, 5, 6>> ELSE <<1, 2, 3>>

\* the heap once the rows `to` hold copies of the rows `from`
Copied(h, from, to) ==
    [r \in RowIds |->
        IF \E k \in 1 .. 3 : to[k] = r
        THEN h[from[CHOOSE k \in 1 .. 3 : to[k] = r]]
        ELSE h[r]]

\* nb[i][j] = m
Store(h, b, i, j, m) == [h EXCEPT ![b[i + 1]][j + 1] = m]

\* the heap with every row object outside b reclaimed
Collect(h, b) ==
    [r \in RowIds |->
        IF \E k \in 1 .. 3 : b[k] = r THEN h[r] ELSE <<EMPTY, EMPTY, EMPTY>>]

TTTInit ==
    /\ heap = [r \in RowIds |-> <<EMPTY, EMPTY, EMPTY>>]
    /\ board = <<1, 2, 3>>
    /\ nb = NoBoard
    /\ action = NoAction
    /\ raised = FALSE
    /\ board0 = initial_state

\* result(board, (i, j))
Result(i, j) ==
    /\ action' = <<i, j>>
    /\ board0' = Contents(heap, board)
    /\ board' = board
    /\ IF ~InBounds(i, j)
       THEN /\ raised' = TRUE
            /\ nb' = NoBoard
            /\ heap' = Collect(heap, board)
       ELSE LET rows == CopyRows(board)
                h1 == Copied(heap, board, rows)
            IN  IF h1[rows[i + 1]][j + 1] # EMPTY
                THEN /\ raised' = TRUE
                     /\ nb' = NoBoard
                     /\ heap' = Collect(h1, board)
                ELSE /\ raised' = FALSE
                     /\ nb' = rows
                     /\ heap' = Store(h1, rows, i, j, player(Contents(h1, rows)))
    /\ UNCHANGED cwvars

\* res = result(board, action); the search goes on from res (minimax, max_, min_)
Descend ==
    /\ nb # NoBoard
    /\ Count(Contents(heap, nb), EMPTY) >= 9 - MaxMoves
    /\ board' = nb
    /\ heap' = Collect(heap, nb)
    /\ nb' = NoBoard
    /\ action' = NoAction
    /\ raised' = FALSE
    /\ board0' = Contents(heap, nb)
    /\ UNCHANGED cwvars

----------------------------------------------------------------------------
(* Crossword solver: state machine *)

\* The methods are called from outside in any order while pc = "idle".
\* consistent(a) and a direct backtrack(a) read self.domains and never write
\* it: a call made after them would start from the solver state they started
\* from, so a run ends at their answer (pc = "answered").

\* vocabularies of at most MaxVocab words
Vocabularies == { ws \in SUBSET Universe : Cardinality(ws) <= MaxVocab }

\* every partial mapping from slots to words of the vocabulary
Assignments ==
    UNION { [vs -> words] : vs \in SUBSET variables }

\* one assignment for each set of assigned slots: the arguments of
\* order_domain_values, which reads the keys of its assignment only
\* (`if neighbor in assignment`) and never the words
KeyedAssignments ==
    IF words = {}
    THEN {EmptyAssignment}
    ELSE { [s \in vs |-> CHOOSE w \in words : TRUE] : vs \in SUBSET variables }

\* CrosswordCreator(crossword) for the slots vs and the vocabulary ws
Created(vs, ws) ==
    /\ variables = vs
    /\ words = ws
    /\ domains = InitialDomains(vs, ws)
    /\ pc = "idle"
    /\ caller = "api"
    /\ arcs = <<>>
    /\ stack = <<>>
    /\ rv = Pending
    /\ rvFor = EmptyAssignment
    /\ op = "__init__"
    /\ arg = EmptyAssignment
    /\ ret = Pending
    /\ ac3ret = Pending
    /\ revised = "none"
    /\ domains0 = InitialDomains(vs, ws)
    /\ priorAc3 = FALSE
    /\ out = "none"
    /\ arc = <<>>
    /\ ordered = <<>>

Init ==
    /\ \E g \in Grids, ws \in Vocabularies : Created(Slots(g), ws)
    /\ TTTInit

\* bookkeeping common to every call from outside: the method, its assignment
\* argument, its outcome so far, and the arc or (var, list) of a direct call of
\* revise or order_domain_values
CalledWith(name, a, r, xy, list) ==
    /\ arc' = xy
    /\ ordered' = list
    /\ op' = name
    /\ arg' = a
    /\ ret' = r
    /\ ac3ret' = Pending
    /\ revised' = "none"
    /\ rv' = Pending
    /\ rvFor' = EmptyAssignment
    /\ out' = "none"
    /\ domains0' = domains
    /\ priorAc3' = (name = "ac3" /\ op = "ac3" /\ ret = Bool(TRUE))

Called(name, a, r) == CalledWith(name, a, r, <<>>, <<>>)

\* a frame of backtrack that has just been called on assignment a
Entered(a) == [st |-> "enter", assignment |-> a]

\* a frame of backtrack inside its for loop over order_domain_values(x, a);
\* values holds the words of the sorted list still to come (sorted() fixes their
\* order only up to ties, so the next one is any of NextValues)
Looping(a, x, values) ==
    [st |-> "loop", assignment |-> a, x |-> x, values |-> values]

\* creator.enforce_node_consistency()
CallEnforceNodeConsistency ==
    /\ pc = "idle"
    /\ Called("enforce_node_consistency", EmptyAssignment, NoneValue)
    /\ domains' = enforce_node_consistency(domains)
    /\ UNCHANGED <<variables, words, pc, caller, arcs, stack>>
    /\ UNCHANGED tttvars

\* creator.consistent(a)
CallConsistent ==
    /\ pc = "idle"
    /\ \E a \in Assignments :
          Called("consistent", a, Bool(consistent(a)))
    /\ pc' = "answered"
    /\ UNCHANGED <<variables, words, domains, caller, arcs, stack>>
    /\ UNCHANGED tttvars

\* creator.revise(x, y) for two distinct slots
CallRevise ==
    /\ pc = "idle"
    /\ \E x \in variables, y \in variables :
          /\ x # y
          /\ IF reviseRaises(domains, x, y)
             THEN /\ CalledWith("revise", EmptyAssignment, IndexError,
                                <<x, y>>, <<>>)
                  /\ domains' = domains
             ELSE /\ CalledWith("revise", EmptyAssignment,
                                Bool(revise(domains, x, y)), <<x, y>>, <<>>)
                  /\ domains' = reviseDomains(domains, x, y)
    /\ pc' = "answered"
    /\ UNCHANGED <<variables, words, caller, arcs, stack>>
    /\ UNCHANGED tttvars

\* creator.ac3(): build the initial list of arcs
CallAc3 ==
    /\ pc = "idle"
    /\ Called("ac3", EmptyAssignment, Pending)
    /\ \E q \in InitialArcs : arcs' = q
    /\ pc' = "ac3"
    /\ caller' = "api"
    /\ UNCHANGED <<variables, words, domains, stack>>
    /\ UNCHANGED tttvars

\* creator.order_domain_values(var, a)
CallOrderDomainValues ==
    /\ pc = "idle"
    /\ \E var \in variables, a \in KeyedAssignments :
          IF orderRaises(var, a)
          THEN CalledWith("order_domain_values", a, IndexError, <<>>,
                          <<var, <<>> >>)
          ELSE \E list \in order_domain_values(var, a) :
                  CalledWith("order_domain_values", a, Listed, <<>>,
                             <<var, list>>)
    /\ pc' = "answered"
    /\ UNCHANGED <<variables, words, domains, caller, arcs, stack>>
    /\ UNCHANGED tttvars

\* creator.solve(): enforce_node_consistency(), then ac3() builds its arcs
CallSolve ==
    /\ pc = "idle"
    /\ Called("solve", EmptyAssignment, Pending)
    /\ domains' = enforce_node_consistency(domains)
    /\ \E q \in InitialArcs : arcs' = q
    /\ pc' = "ac3"
    /\ caller' = "solve"
    /\ UNCHANGED <<variables, words, stack>>
    /\ UNCHANGED tttvars

\* creator.backtrack(a)
CallBacktrack ==
    /\ pc = "idle"
    /\ \E a \in Assignments :
          /\ Called("backtrack", a, Pending)
          /\ stack' = <<Entered(a)>>
    /\ pc' = "backtrack"
    /\ caller' = "api"
    /\ UNCHANGED <<variables, words, domains, arcs>>
    /\ UNCHANGED tttvars

\* ac3: one iteration of the while loop
Ac3Step ==
    /\ pc = "ac3"
    /\ Len(arcs) # 0
    /\ LET x == Head(arcs)[1]
           y == Head(arcs)[2]
           rest == Pop(arcs)
       IN  IF reviseRaises(domains, x, y)
           THEN /\ pc' = "idle"
                /\ ret' = IndexError
                /\ arcs' = <<>>
                /\ revised' = "raised"
                /\ UNCHANGED <<domains, ac3ret>>
           ELSE /\ domains' = reviseDomains(domains, x, y)
                /\ IF revise(domains, x, y)
                   THEN /\ revised' = "changed"
                        /\ \E order \in Orderings(neighbors(x)) :
                              arcs' = Enqueue(rest, x, order)
                   ELSE /\ revised' = "unchanged"
                        /\ arcs' = rest
                /\ UNCHANGED <<pc, ret, ac3ret>>
    /\ UNCHANGED <<variables, words, caller, stack, rv, rvFor, op, arg,
                   domains0, priorAc3, out>>
    /\ UNCHANGED <<arc, ordered>>
    /\ UNCHANGED tttvars

\* ac3: the loop has ended; scan for an empty domain and return.  solve()
\* drops the value and calls backtrack(dict())
Ac3Return ==
    /\ pc = "ac3"
    /\ Len(arcs) = 0
    /\ ac3ret' = Bool(NoEmptyDomain(domains))
    /\ revised' = "none"
    /\ IF caller = "solve"
       THEN /\ pc' = "backtrack"
            /\ stack' = <<Entered(EmptyAssignment)>>
            /\ ret' = ret
       ELSE /\ pc' = "idle"
            /\ stack' = stack
            /\ ret' = Bool(NoEmptyDomain(domains))
    /\ UNCHANGED <<variables, words, domains, caller, arcs, rv, rvFor, op, arg,
                   domains0, priorAc3, out>>
    /\ UNCHANGED <<arc, ordered>>
    /\ UNCHANGED tttvars

\* the stack once its innermost frame has returned
Popped == SubSeq(stack, 1, Len(stack) - 1)

\* the stack with its innermost frame replaced
Replaced(f) == [stack EXCEPT ![Len(stack)] = f]

Top == stack[Len(stack)]

\* backtrack: from the call to the head of the for loop
BtEnter ==
    /\ pc = "backtrack"
    /\ Len(stack) > 0
    /\ Top.st = "enter"
    /\ LET a == Top.assignment
       IN  IF assignment_complete(a)
           THEN /\ stack' = Popped
                /\ rv' = Dict(a)
                /\ rvFor' = a
                /\ UNCHANGED <<pc, ret>>
           ELSE \E x \in select_unassigned_variable(a) :
                   IF orderRaises(x, a)
                   THEN /\ stack' = <<>>
                        /\ pc' = "idle"
                        /\ ret' = IndexError
                        /\ UNCHANGED <<rv, rvFor>>
                   ELSE /\ stack' = Replaced(Looping(a, x, domains[x]))
                        /\ UNCHANGED <<pc, ret, rv, rvFor>>
    /\ UNCHANGED <<variables, words, domains, caller, arcs, op, arg, ac3ret,
                   revised, domains0, priorAc3, out>>
    /\ UNCHANGED <<arc, ordered>>
    /\ UNCHANGED tttvars

\* backtrack: one pass of the for loop up to the recursive call, or its end
BtLoop ==
    /\ pc = "backtrack"
    /\ Len(stack) > 0
    /\ Top.st = "loop"
    /\ rv = Pending
    /\ IF Top.values = {}
       THEN /\ stack' = Popped
            /\ rv' = NoneValue
            /\ rvFor' = Top.assignment
       ELSE \E w \in NextValues(Top.x, Top.assignment, Top.values) :
               LET curr == Extend(Top.assignment, Top.x, w)
                   next == Looping(CallerAssignment(Top.assignment, curr),
                                   Top.x, Top.values \ {w})
               IN  /\ IF ~consistent(curr)
                      THEN stack' = Replaced(next)
                      ELSE stack' = Append(Replaced(next), Entered(curr))
                   /\ UNCHANGED <<rv, rvFor>>
    /\ UNCHANGED <<variables, words, domains, pc, caller, arcs, op, arg, ret,
                   ac3ret, revised, domains0, priorAc3, out>>
    /\ UNCHANGED <<arc, ordered>>
    /\ UNCHANGED tttvars

\* backtrack: the recursive call has returned res; `if res: return res`
BtResume ==
    /\ pc = "backtrack"
    /\ Len(stack) > 0
    /\ Top.st = "loop"
    /\ rv # Pending
    /\ IF Truthy(rv)
       THEN /\ stack' = Popped
            /\ rv' = rv
            /\ rvFor' = Top.assignment
       ELSE /\ stack' = stack
            /\ rv' = Pending
            /\ rvFor' = EmptyAssignment
    /\ UNCHANGED <<variables, words, domains, pc, caller, arcs, op, arg, ret,
                   ac3ret, revised, domains0, priorAc3, out>>
    /\ UNCHANGED <<arc, ordered>>
    /\ UNCHANGED tttvars

\* the outermost backtrack has returned: to the outside caller, or through
\* solve() to main(), which reports the result
BtReturn ==
    /\ pc = "backtrack"
    /\ Len(stack) = 0
    /\ pc' = IF caller = "solve" THEN "idle" ELSE "answered"
    /\ ret' = rv
    /\ out' = IF caller = "solve" THEN Report(rv) ELSE out
    /\ UNCHANGED <<variables, words, domains, caller, arcs, stack, rv, rvFor,
                   op, arg, ac3ret, revised, domains0, priorAc3>>
    /\ UNCHANGED <<arc, ordered>>
    /\ UNCHANGED tttvars

Next ==
    \/ CallEnforceNodeConsistency
    \/ CallConsistent
    \/ CallRevise
    \/ CallOrderDomainValues
    \/ CallAc3
    \/ CallSolve
    \/ CallBacktrack
    \/ Ac3Step
    \/ Ac3Return
    \/ BtEnter
    \/ BtLoop
    \/ BtResume
    \/ BtReturn

Spec == Init /\ [][Next]_vars

\* the solver runs: a program that never stops inside ac3's loop or inside
\* backtrack while a step is possible (single-threaded, synchronous code)
FairSpec ==
    /\ Spec
    /\ WF_vars(Ac3Step)
    /\ WF_vars(Ac3Return)

----------------------------------------------------------------------------
(* Tic-tac-toe: state machine *)

\* the coordinates a caller may hand to result, one step outside the board too
Coordinates == -1 .. 3

TTTStart ==
    /\ Created({}, {})
    /\ TTTInit

TTTNext ==
    \/ \E i \in Coordinates, j \in Coordinates : Result(i, j)
    \/ Descend

TTTSpec == TTTStart /\ [][TTTNext]_vars

----------------------------------------------------------------------------
(* Properties *)

\* assignment a gives every slot a word
Complete(a) == DOMAIN a = variables

\* a call of backtrack, outermost or recursive, has just returned a dict
ReturnedDict == pc \in {"backtrack", "idle", "answered"} /\ rv.kind = "dict"

\* C1 as stated: any assignment returned by backtrack, whatever assignment it
\* was called on, is complete and passes consistent().
C1_AnyCallReturnsCompleteConsistent ==
    ReturnedDict => (Complete(rv.val) /\ consistent(rv.val))

\* C1 amended: any assignment returned by backtrack, when it was called on
\* an assignment that is incomplete or passes consistent() (the empty
\* assignment of solve() is both), is complete and passes consistent().
C1_ReturnsCompleteConsistent ==
    (ReturnedDict /\ (~Complete(arg) \/ consistent(arg)))
        => (Complete(rv.val) /\ consistent(rv.val))

\* solve() has returned a full assignment of the three-slot puzzle
C1_Witness ==
    /\ pc = "idle"
    /\ op = "solve"
    /\ ret.kind = "dict"
    /\ Cardinality(variables) = 3
    /\ Complete(ret.val)

\* the complete assignments that extend a and take every other slot's word
\* from that slot's current domain
Extensions(a) ==
    { f \in [variables -> words] :
        /\ \A s \in DOMAIN a : f[s] = a[s]
        /\ \A s \in variables \ DOMAIN a : f[s] \in domains[s] }

\* C2: when a call of backtrack (outermost or recursive) returns None, no
\* complete assignment extending the one it was called on, built from the
\* current domains, passes consistent(); so also for solve() returning None.
C2_FailureMeansNoSolution ==
    /\ (pc \in {"backtrack", "idle", "answered"} /\ rv = NoneValue)
          => \A f \in Extensions(rvFor) : ~consistent(f)
    /\ (pc \in {"idle", "answered"} /\ op \in {"solve", "backtrack"}
           /\ ret = NoneValue)
          => \A f \in Extensions(arg) : ~consistent(f)

\* backtrack called on a non-empty partial assignment of the three-slot puzzle
\* has failed although every domain still holds a word
C2_Witness ==
    /\ pc = "answered"
    /\ op = "backtrack"
    /\ ret = NoneValue
    /\ Cardinality(variables) = 3
    /\ Cardinality(DOMAIN arg) = 1
    /\ consistent(arg)
    /\ \A s \in variables : domains[s] # {}

\* C3: when the ac3() inside solve() ended with an empty domain (it returned
\* False), solve() returns None and main reports that there is no solution.
C3_Ac3FailureMeansNoSolution ==
    (pc = "idle" /\ op = "solve" /\ ac3ret = Bool(FALSE))
        => (ret = NoneValue /\ out = "No solution.")

\* solve() came back after its ac3() emptied a domain that node consistency
\* had left non-empty
C3_Witness ==
    /\ pc = "idle"
    /\ op = "solve"
    /\ ac3ret = Bool(FALSE)
    /\ \E s \in variables :
          /\ domains[s] = {}
          /\ enforce_node_consistency(domains0)[s] # {}

\* every word of every domain has a partner in each neighboring domain
ArcConsistent ==
    \A x \in variables : \A y \in neighbors(x) : \A w \in domains[x] :
        \E w2 \in domains[y] :
            Char(w, overlaps(x, y)[1]) = Char(w2, overlaps(x, y)[2])

\* C4: when ac3() with no initial arcs returns True, no domain is empty and
\* every word of domain(x) agrees with some word of domain(y) at the overlap,
\* for all neighbors x, y.
C4_Ac3TrueIsArcConsistent ==
    (ac3ret = Bool(TRUE))
        => (/\ \A x \in variables : domains[x] # {}
            /\ ArcConsistent)

\* ac3() returned True on the three-slot puzzle after pruning some domain
C4_Witness ==
    /\ pc = "idle"
    /\ op = "ac3"
    /\ ret = Bool(TRUE)
    /\ Cardinality(variables) = 3
    /\ domains # domains0

\* C5: after enforce_node_consistency() every domain is exactly the words of
\* its previous domain whose length is the slot's length; the call completes
\* also when a domain becomes empty.
C5_NodeConsistencyFilters ==
    (op = "enforce_node_consistency")
        => /\ pc = "idle"
           /\ ret = NoneValue
           /\ \A s \in variables :
                 /\ \A w \in domains[s] : Len(w) = s.length
                 /\ domains[s] \subseteq domains0[s]
                 /\ \A w \in domains0[s] :
                       Len(w) = s.length => w \in domains[s]

\* enforce_node_consistency() has emptied one domain and pruned another
C5_Witness ==
    /\ pc = "idle"
    /\ op = "enforce_node_consistency"
    /\ \E s \in variables : domains[s] = {} /\ domains0[s] # {}
    /\ \E s \in variables : domains[s] # {} /\ domains[s] # domains0[s]

\* what consistent() is specified to decide
LengthsFit(a) == \A s \in DOMAIN a : Len(a[s]) = s.length

PairwiseDistinct(a) == \A s, t \in DOMAIN a : s # t => a[s] # a[t]

OverlapsAgree(a) ==
    \A s, t \in DOMAIN a :
        overlaps(s, t) # None
            => Char(a[s], overlaps(s, t)[1]) = Char(a[t], overlaps(s, t)[2])

\* C6: consistent(a) is true exactly when every word has its slot's length,
\* the words are pairwise distinct and overlapping assigned slots agree at
\* the shared cell; it is true for the empty assignment.
C6_ConsistentDecides ==
    (op = "consistent")
        => /\ (ret = Bool(TRUE))
                 <=> (LengthsFit(arg) /\ PairwiseDistinct(arg) /\ OverlapsAgree(arg))
           /\ ret \in {Bool(TRUE), Bool(FALSE)}
           /\ (arg = EmptyAssignment => ret = Bool(TRUE))

\* consistent() has rejected an assignment whose only fault is one word used
\* for two slots that do not cross
C6_Witness ==
    /\ op = "consistent"
    /\ ret = Bool(FALSE)
    /\ LengthsFit(arg)
    /\ OverlapsAgree(arg)
    /\ \E s, t \in DOMAIN arg :
          s # t /\ arg[s] = arg[t] /\ overlaps(s, t) = None

\* C7: with zero slots solve() returns the empty assignment, which main
\* reports as a solution; main reports "No solution." exactly when solve()
\* returned None, and that happens only for a puzzle with a slot.
C7_EmptyPuzzleSucceeds ==
    (pc = "idle" /\ op = "solve")
        => /\ (variables = {})
                 => (ret = Dict(EmptyAssignment) /\ out = "printed")
           /\ (out = "No solution.") <=> (ret = NoneValue)
           /\ (ret = NoneValue) => (variables # {})

\* solve() has returned on the fully blocked grid
C7_Witness ==
    /\ pc = "idle"
    /\ op = "solve"
    /\ variables = {}
    /\ words # {}
    /\ ret.kind = "dict"

\* C8: when ac3() is called right after an ac3() that returned True, it never
\* changes a domain and returns True again.
C8_Ac3Idempotent ==
    (op = "ac3" /\ priorAc3)
        => /\ domains = domains0
           /\ ret \in {Pending, Bool(TRUE)}
           /\ (pc = "idle" => ret = Bool(TRUE))

\* the second ac3() in a row has returned on the three-slot puzzle, the
\* domains being smaller than the vocabulary
C8_Witness ==
    /\ pc = "idle"
    /\ op = "ac3"
    /\ priorAc3
    /\ ret = Bool(TRUE)
    /\ Cardinality(variables) = 3
    /\ \E s \in variables : domains[s] # words

\* C9: result(board, (i, j)) raises when (i, j) is out of bounds or the cell
\* is filled, and the board it was given holds afterwards what it held
\* before, whether the call raised or returned a new board.
C9_ResultRaisesAndLeavesBoard ==
    (action # NoAction)
        => /\ (~InBounds(action[1], action[2])) => raised
           /\ (InBounds(action[1], action[2])
                  /\ board0[action[1] + 1][action[2] + 1] # EMPTY) => raised
           /\ Contents(heap, board) = board0
           /\ raised => nb = NoBoard

\* result() has raised for a filled cell, on a board with marks of both players
C9_Witness ==
    /\ action # NoAction
    /\ raised
    /\ InBounds(action[1], action[2])
    /\ board0[action[1] + 1][action[2] + 1] = O
    /\ Contents(heap, board) = board0

\* the total number of words in the domains
RECURSIVE SizeOver(_, _)
SizeOver(dom, vs) ==
    IF vs = {}
    THEN 0
    ELSE LET v == CHOOSE u \in vs : TRUE
         IN  Cardinality(dom[v]) + SizeOver(dom, vs \ {v})

\* C10: ac3 terminates: once inside its loop it leaves it; every iteration
\* either changes no domain and enqueues nothing, or strictly shrinks one
\* domain, and no domain ever grows during ac3.
C10_Ac3Terminates ==
    /\ (pc = "ac3") ~> (pc # "ac3")
    /\ [][(pc = "ac3" /\ Len(arcs) # 0 /\ revised' # "raised")
             => /\ \A s \in variables : domains'[s] \subseteq domains[s]
                /\ \/ /\ revised' = "unchanged"
                      /\ domains' = domains
                      /\ Len(arcs') = Len(arcs) - 1
                   \/ /\ revised' = "changed"
                      /\ SizeOver(domains', variables)
                            < SizeOver(domains, variables)]_vars

\* an ac3() of the three-slot puzzle has left its loop after emptying a domain
C10_Witness ==
    /\ pc = "idle"
    /\ op = "ac3"
    /\ ret = Bool(FALSE)
    /\ Cardinality(variables) = 3
    /\ \E s \in variables : domains0[s] # {} /\ domains[s] = {}

\* the arcs (z, x), z running over the slots zs in the given order
ArcsInto(x, order) == [k \in 1 .. Len(order) |-> <<order[k], x>>]

\* C11: when revise(x, y) removes a word during ac3, ac3 appends the arc
\* (z, x) for every neighbor z of x other than y, and does not append (y, x).
C11_EnqueuesNeighborsExceptY ==
    [][(pc = "ac3" /\ Len(arcs) # 0 /\ revised' = "changed")
          => \E order \in Orderings(neighbors(Head(arcs)[1]) \ {Head(arcs)[2]}) :
                arcs' = Tail(arcs) \o ArcsInto(Head(arcs)[1], order)]_vars

\* C12: revise(x, y) removes from domain(x) exactly the words with no word in
\* domain(y) showing the same letter at the overlap, returns True iff it
\* removed a word, returns False and changes nothing when x and y do not
\* overlap, and leaves every other slot's domain as it was.
C12_ReviseRemovesUnsupported ==
    (op = "revise" /\ ret # IndexError)
        => LET x == arc[1]
               y == arc[2]
               removed == domains0[x] \ domains[x]
           IN  /\ domains[x] \subseteq domains0[x]
               /\ \A s \in variables \ {x} : domains[s] = domains0[s]
               /\ (ret = Bool(TRUE)) <=> (removed # {})
               /\ ret \in {Bool(TRUE), Bool(FALSE)}
               /\ IF overlaps(x, y) = None
                  THEN domains = domains0 /\ ret = Bool(FALSE)
                  ELSE removed =
                         { w \in domains0[x] :
                             ~\E w2 \in domains0[y] :
                                 Char(w, overlaps(x, y)[1])
                                     = Char(w2, overlaps(x, y)[2]) }

\* revise(x, y) has removed one word of domain(x) and kept another
C12_Witness ==
    /\ op = "revise"
    /\ ret = Bool(TRUE)
    /\ domains[arc[1]] # {}
    /\ domains[arc[1]] # domains0[arc[1]]
    /\ domains0[arc[2]] # {}

\* assignment f gives two crossing slots words that show the same letter at
\* the shared cell (a word too short to reach the cell agrees with nothing)
AgreesAtOverlaps(f) ==
    \A s, t \in DOMAIN f :
        overlaps(s, t) # None
            => /\ ~OutOfRange(f[s], overlaps(s, t)[1])
               /\ ~OutOfRange(f[t], overlaps(s, t)[2])
               /\ Char(f[s], overlaps(s, t)[1]) = Char(f[t], overlaps(s, t)[2])

\* the complete assignments that take every slot's word from dom and agree at
\* every overlap
SolutionsIn(dom) ==
    { f \in [variables -> words] :
        /\ \A s \in variables : f[s] \in dom[s]
        /\ AgreesAtOverlaps(f) }

\* C13: ac3 never prunes a word of a solution: at every point of an ac3() run,
\* for every complete assignment that takes each slot's word from the domains
\* ac3 started with and agrees at every overlap, each slot's word is still in
\* that slot's domain.
C13_Ac3KeepsSolutions ==
    (op = "ac3")
        => \A f \in SolutionsIn(domains0) :
              \A s \in variables : f[s] \in domains[s]

\* ac3() has ended on a three-slot puzzle with a solution among the domains it
\* started with, after pruning a word from some domain
C13_Witness ==
    /\ op = "ac3"
    /\ pc = "idle"
    /\ ret = Bool(TRUE)
    /\ Cardinality(variables) = 3
    /\ SolutionsIn(domains0) # {}
    /\ \E s \in variables : domains[s] # domains0[s]

Min(a, b) == IF a <= b THEN a ELSE b

\* C14: while backtrack runs, at every depth, no step changes the domains, and
\* no step changes the assignment of an activation that stays on the stack
\* (each candidate is tried on a copy); the outermost activation's assignment
\* is the argument the caller passed.
C14_BacktrackLeavesDomainsAndAssignment ==
    [][(pc = "backtrack")
          => /\ domains' = domains
             /\ arg' = arg
             /\ (Len(stack) >= 1 => stack[1].assignment = arg)
             /\ \A k \in 1 .. Min(Len(stack), Len(stack')) :
                   stack'[k].assignment = stack[k].assignment]_vars

\* a recursive call on a copy extended by one slot has failed, two levels
\* deep, and the caller's assignment is without that slot
C14_Witness ==
    /\ pc = "backtrack"
    /\ rv = NoneValue
    /\ Len(stack) >= 2
    /\ Top.st = "loop"
    /\ Top.x \notin DOMAIN Top.assignment
    /\ DOMAIN rvFor = DOMAIN Top.assignment \cup {Top.x}
    /\ \A s \in DOMAIN Top.assignment : rvFor[s] = Top.assignment[s]

\* the activations of backtrack that have selected their slot
Selecting == { k \in 1 .. Len(stack) : stack[k].st = "loop" }

\* C15: the slot select_unassigned_variable returned for an incomplete
\* assignment is not in that assignment, and no slot outside the assignment
\* has a smaller current domain.
C15_SelectsMinimumRemainingValues ==
    (pc = "backtrack")
        => \A k \in Selecting :
              LET a == stack[k].assignment
                  x == stack[k].x
              IN  /\ x \in variables \ DOMAIN a
                  /\ ~\E u \in variables \ DOMAIN a :
                         Cardinality(domains[u]) < Cardinality(domains[x])

\* a slot has been selected while another unassigned slot has a larger domain
C15_Witness ==
    /\ pc = "backtrack"
    /\ \E k \in Selecting :
          \E u \in variables \ DOMAIN stack[k].assignment :
              /\ u # stack[k].x
              /\ Cardinality(domains[u]) > Cardinality(domains[stack[k].x])
              /\ domains[stack[k].x] # {}

\* the words that choosing word for var rules out: one for each pair of a slot
\* n crossing var that is not in assignment a and a word of n's domain whose
\* letter at the shared cell differs from word's
RuledOut(var, a, word) ==
    { <<n, other>> \in (variables \ (DOMAIN a \cup {var})) \X words :
        /\ overlaps(var, n) # None
        /\ other \in domains[n]
        /\ Char(word, overlaps(var, n)[1]) # Char(other, overlaps(var, n)[2]) }

\* C16: order_domain_values(var, a) returns every word of var's domain exactly
\* once, in non-decreasing order of the number of words the choice rules out
\* in the domains of var's unassigned neighbors; assigned neighbors add nothing.
C16_OrdersByLeastConstraining ==
    (op = "order_domain_values" /\ ret # IndexError)
        => LET var == ordered[1]
               list == ordered[2]
           IN  /\ Len(list) = Cardinality(domains[var])
               /\ { list[i] : i \in 1 .. Len(list) } = domains[var]
               /\ \A i, j \in 1 .. Len(list) :
                     i < j => Cardinality(RuledOut(var, arg, list[i]))
                                 <= Cardinality(RuledOut(var, arg, list[j]))

\* a list of two or more words with unequal counts has been returned for a
\* slot with one neighbor assigned and another unassigned
C16_Witness ==
    /\ op = "order_domain_values"
    /\ ret = Listed
    /\ Len(ordered[2]) >= 2
    /\ Cardinality(RuledOut(ordered[1], arg, ordered[2][1]))
          < Cardinality(RuledOut(ordered[1], arg, ordered[2][Len(ordered[2])]))
    /\ \E n \in neighbors(ordered[1]) : n \in DOMAIN arg /\ domains[n] # {}
    /\ \E n \in neighbors(ordered[1]) : n \notin DOMAIN arg

====
